---- MODULE Spec2Model ----
(***************************************************************************)
(* python_file_formatter.py: format_file (optional comment removal with    *)
(* pyparsing, then yapf's FormatCode, then the write of the output file)   *)
(* and the command line's loop over the files of a directory.              *)
(*                                                                         *)
(* Text is a sequence of one-character strings; positions are 1-based, so  *)
(* Python's offset k is position k + 1 and "end of text" is Len(s) + 1.    *)
(* A match is reported by the position just after it; 0 means no match     *)
(* (pyparsing's ParseException).                                           *)
(***************************************************************************)
EXTENDS Integers, Sequences, FiniteSets

\* ------------------------------------------------------------ characters
DQ == "\""
SQ == "'"
BS == "\\"
NL == "\n"
HASH == "#"

\* The pieces input text is built from: the characters that matter to the
\* scan (both quote characters, the comment marker, the backslash, the line
\* terminator, an ordinary character), the backslash-quote pair and the
\* triple double quote.  open() at line 15 reads with universal newlines, so
\* "\r" never reaches the scan.
Pieces ==
    { <<"a">>, <<HASH>>, <<DQ>>, <<SQ>>, <<BS>>, <<NL>>, <<BS, DQ>>, <<DQ, DQ, DQ>> }

\* The longest input text is MaxPieces pieces.
MaxPieces == 5

\* A directory run collects at most MaxFiles files.
MaxFiles == 3

RECURSIVE Flatten(_)
Flatten(ps) == IF ps = <<>> THEN <<>> ELSE Head(ps) \o Flatten(Tail(ps))

\* The texts of the files of the runs that vary everything else.
SampleTexts == { <<"a", HASH, "a", NL>>, <<DQ, BS, DQ, HASH, DQ>> }

\* ------------------------------------------------------------- pyparsing
\* pyparsing's default whitespace characters, skipped before every match.
whiteChars == { " ", NL, "\t", "\r" }

StartsWith(s, loc, q) ==
    /\ loc >= 1
    /\ loc + Len(q) - 1 <= Len(s)
    /\ SubSeq(s, loc, loc + Len(q) - 1) = q

\* The longest proper prefix of the delimiter q, of at most n characters, that
\* stands at loc and is not followed by the rest of q: its length, 0 if none.
RECURSIVE partialDelimiter(_, _, _, _)
partialDelimiter(s, loc, q, n) ==
    IF n = 0 THEN 0
    ELSE IF /\ StartsWith(s, loc, SubSeq(q, 1, n))
            /\ ~StartsWith(s, loc + n, SubSeq(q, n + 1, Len(q)))
         THEN n
         ELSE partialDelimiter(s, loc, q, n - 1)

\* One character that is not the delimiter's first character nor, unless
\* multiline, a line break: 1 if it stands at loc, else 0.
plainChar(s, loc, q, multiline) ==
    IF /\ loc <= Len(s)
       /\ s[loc] # q[1]
       /\ (multiline \/ s[loc] \notin { NL, "\r" })
    THEN 1
    ELSE 0

\* The first of two attempts that matched (0: neither).
orElse(first, second) == IF first # 0 THEN first ELSE second

\* One repetition of the inner pattern of QuotedString(q, multiline) at loc:
\* the number of characters it takes, 0 when it does not match.  No esc_char
\* is given at lines 21-24, so a backslash is an ordinary character.
QuotedInner(s, loc, q, multiline) ==
    orElse(partialDelimiter(s, loc, q, Len(q) - 1), plainChar(s, loc, q, multiline))

\* The rest of the pattern from loc, after the opening delimiter: repetitions
\* of the inner pattern, then the closing delimiter.
RECURSIVE QuotedRest(_, _, _, _)
afterInner(s, loc, q, multiline, n) ==
    IF n > 0 THEN QuotedRest(s, loc + n, q, multiline)
    ELSE IF StartsWith(s, loc, q) THEN loc + Len(q)
    ELSE 0

QuotedRest(s, loc, q, multiline) ==
    afterInner(s, loc, q, multiline, QuotedInner(s, loc, q, multiline))

\* QuotedString with a literal that is never closed taken to run to the end of
\* the text.
QuotedString_unclosed(s, loc, q, multiline) ==
    IF StartsWith(s, loc, q)
    THEN orElse(QuotedRest(s, loc + Len(q), q, multiline), Len(s) + 1)
    ELSE 0

\* QuotedString(q, multiline=...) tried at loc.
QuotedString(s, loc, q, multiline) ==
    IF StartsWith(s, loc, q) THEN QuotedRest(s, loc + Len(q), q, multiline) ELSE 0

RECURSIVE skipWhitespace(_, _)
skipWhitespace(s, loc) ==
    IF loc <= Len(s) /\ s[loc] \in whiteChars THEN skipWhitespace(s, loc + 1) ELSE loc

\* any_python_quoted_string with the one-character delimiters tried first.
any_python_quoted_string_shortFirst(s, loc) ==
    orElse(QuotedString(s, loc, <<DQ>>, FALSE),
    orElse(QuotedString(s, loc, <<SQ>>, FALSE),
    orElse(QuotedString(s, loc, <<DQ, DQ, DQ>>, TRUE),
           QuotedString(s, loc, <<SQ, SQ, SQ>>, TRUE))))

\* any_python_quoted_string tried at loc (lines 20-25; MatchFirst: the first
\* alternative that matches decides).
any_python_quoted_string(s, loc) ==
    orElse(QuotedString(s, loc, <<DQ, DQ, DQ>>, TRUE),
    orElse(QuotedString(s, loc, <<SQ, SQ, SQ>>, TRUE),
    orElse(QuotedString(s, loc, <<DQ>>, FALSE),
           QuotedString(s, loc, <<SQ>>, FALSE))))

\* The ignore expression tried from loc: whitespace is skipped, then a literal
\* must match.
ignoreExpr(s, loc) == any_python_quoted_string(s, skipWhitespace(s, loc))

\* ParserElement._skipIgnorables: literals (each after optional whitespace)
\* are skipped for as long as one matches; e is the end of the literal found
\* at loc.
RECURSIVE skipIgnorables(_, _)
skipFrom(s, loc, e) == IF e = 0 THEN loc ELSE skipIgnorables(s, e)

skipIgnorables(s, loc) == skipFrom(s, loc, ignoreExpr(s, loc))

preParse(s, loc) == skipWhitespace(s, skipIgnorables(s, loc))

RECURSIVE lineEnd(_, _)
lineEnd(s, loc) ==
    IF loc <= Len(s) /\ s[loc] # NL THEN lineEnd(s, loc + 1) ELSE loc

\* python_style_comment, Regex("#.*"), tried at loc.
python_style_comment(s, loc) ==
    IF loc <= Len(s) /\ s[loc] = HASH THEN lineEnd(s, loc + 1) ELSE 0

\* scan_string from loc: the matches <<start, end>> of the comment expression.
\* preloc is where the expression is tried, nextLoc where its match ends.
RECURSIVE scan_string(_, _)
scanAt(s, loc, preloc, nextLoc) ==
    IF nextLoc > loc
    THEN << <<preloc, nextLoc>> >> \o scan_string(s, nextLoc)
    ELSE scan_string(s, preloc + 1)

scanFrom(s, loc, preloc) == scanAt(s, loc, preloc, python_style_comment(s, preloc))

scan_string(s, loc) ==
    IF loc > Len(s) + 1 THEN <<>> ELSE scanFrom(s, loc, preParse(s, loc))

\* transform_string's loop over the matches: the text between the matches is
\* kept, a match (suppressed) adds nothing.
RECURSIVE joinKept(_, _, _)
\* transform_string without the text after the last match.
joinKept_noTail(s, matches, lastE) ==
    IF matches = <<>> THEN <<>>
    ELSE SubSeq(s, lastE, matches[1][1] - 1)
             \o joinKept(s, Tail(matches), matches[1][2])

joinKept(s, matches, lastE) ==
    IF matches = <<>> THEN SubSeq(s, lastE, Len(s))
    ELSE SubSeq(s, lastE, matches[1][1] - 1)
             \o joinKept(s, Tail(matches), matches[1][2])

transform_string(s) == joinKept(s, scan_string(s, 1), 1)

\* ------------------------------------------------------------ format_file
\* yapf's FormatCode is outside the repository: its result is the text it was
\* given under a tag, so formatted text is told from unformatted text.
FormatCode(text) == <<"yapf">> \o text

NoFile == [exists |-> FALSE, data |-> <<>>]

NotCalled == [called |-> FALSE, exc |-> "none", steps |-> <<>>, scanned |-> <<>>, code |-> <<>>,
              madeDir |-> FALSE, out |-> NoFile]

\* Line 12 with "and" for "or".
invalidInput_both(f) == ~f.isfile /\ ~f.py

\* Line 12: the input path must be a file whose name ends in ".py".
invalidInput(f) == ~f.isfile \/ ~f.py

\* Lines 18-27: the text after the optional comment removal.
removeComments(text, remove_comments) ==
    IF remove_comments THEN transform_string(text) ELSE text

\* The steps of a call up to the formatter.
stepsToFormat(remove_comments) ==
    IF remove_comments THEN <<"read", "scan", "format">> ELSE <<"read", "format">>

\* Lines 28-36 with the write of the scanned text ahead of FormatCode.
formatAndWrite_writeFirst(f, scanned, early) ==
    IF ~f.outdir
    THEN [called |-> TRUE, exc |-> "FileNotFoundError", steps |-> <<"read", "makedirs">>,
          scanned |-> scanned, code |-> scanned, madeDir |-> FALSE, out |-> f.old]
    ELSE IF ~f.fmtOk
    THEN [called |-> TRUE, exc |-> "FormatCodeError",
          steps |-> <<"read", "makedirs", "write", "format">>,
          scanned |-> scanned, code |-> scanned, madeDir |-> TRUE,
          out |-> [exists |-> TRUE, data |-> scanned]]
    ELSE [called |-> TRUE, exc |-> "none", steps |-> early \o <<"makedirs", "write">>,
          scanned |-> scanned, code |-> FormatCode(scanned), madeDir |-> TRUE,
          out |-> [exists |-> TRUE, data |-> FormatCode(scanned)]]

\* Lines 28-36 on the text scanned: FormatCode, makedirs, the write.
formatAndWrite(f, scanned, early) ==
    IF ~f.fmtOk
    THEN [called |-> TRUE, exc |-> "FormatCodeError", steps |-> early,
          scanned |-> scanned, code |-> scanned, madeDir |-> FALSE, out |-> f.old]
    ELSE IF ~f.outdir
    THEN [called |-> TRUE, exc |-> "FileNotFoundError", steps |-> early \o <<"makedirs">>,
          scanned |-> scanned, code |-> FormatCode(scanned), madeDir |-> FALSE, out |-> f.old]
    ELSE [called |-> TRUE, exc |-> "none", steps |-> early \o <<"makedirs", "write">>,
          scanned |-> scanned, code |-> FormatCode(scanned), madeDir |-> TRUE,
          out |-> [exists |-> TRUE, data |-> FormatCode(scanned)]]

\* One call of format_file on file f (f.old is what the output path holds
\* before the call): the exception it raises ("none": it returns), the steps
\* it took, in order, its local variable code after line 27 (scanned) and at
\* the end, whether it created the output directory, and what the output path
\* holds afterwards.
format_file(f, remove_comments) ==
    IF invalidInput(f)
    THEN [called |-> TRUE, exc |-> "ValueError", steps |-> <<>>,
          scanned |-> <<>>, code |-> <<>>, madeDir |-> FALSE, out |-> f.old]
    ELSE formatAndWrite(f, removeComments(f.text, remove_comments),
                        stepsToFormat(remove_comments))

\* The calls with every exception caught.
propagates_caught(exc) == FALSE

\* Lines 65-73 and 75-82 call format_file with no try around the call: any
\* exception leaves the loop and ends the program.
propagates(exc) == exc # "none"

\* ------------------------------------------------------------------ state
\* remove_comments: the -r flag.  files: the input files in processing order,
\* each with what the file system holds for it.  calls: per file, the record
\* of its format_file call.  raised: the exception that ended the program.
VARIABLES remove_comments, files, calls, raised, pc

vars == <<remove_comments, files, calls, raised, pc>>

OldContents == { NoFile, [exists |-> TRUE, data |-> <<"old">>] }

\* A path given on the command line: anything, with a sample text.
AnyFiles ==
    [isfile : BOOLEAN, py : BOOLEAN, fmtOk : BOOLEAN, outdir : BOOLEAN,
     text : SampleTexts, old : OldContents]

\* A path glob("**/*.py") returns: it ends in ".py" (it may be a directory of
\* that name), and its output path has a directory part.
GlobFiles == { f \in AnyFiles : f.py /\ f.outdir }

\* Lines 74-82: in_file is not a directory.
InitFile ==
    /\ pc = "main"
    /\ raised = "none"
    /\ \/ /\ remove_comments = TRUE
          /\ \E n \in 0..MaxPieces : \E ps \in [1..n -> Pieces] :
                files = << [isfile |-> TRUE, py |-> TRUE, fmtOk |-> TRUE, outdir |-> TRUE,
                            text |-> Flatten(ps), old |-> NoFile] >>
       \/ /\ remove_comments \in BOOLEAN
          /\ \E f \in AnyFiles : files = <<f>>
    /\ calls = [i \in 1..Len(files) |-> NotCalled]

\* Lines 62-64: in_file is a directory.
InitDir ==
    /\ pc = "glob"
    /\ raised = "none"
    /\ remove_comments \in BOOLEAN
    /\ \E n \in 0..MaxFiles : files \in [1..n -> GlobFiles]
    /\ calls = [i \in 1..Len(files) |-> NotCalled]

\* The number of the next file to process.
nextFile == Cardinality({ i \in 1..Len(files) : calls[i].called }) + 1

\* Lines 75-82: the one call of a single-file run; r is its record.
endOne(r) ==
    /\ calls' = [calls EXCEPT ![1] = r]
    /\ raised' = IF propagates(r.exc) THEN r.exc ELSE raised
    /\ pc' = "exit"

FormatOne ==
    /\ pc = "main"
    /\ endOne(format_file(files[1], remove_comments))
    /\ UNCHANGED <<remove_comments, files>>

\* Lines 63-64: glob, then commonpath, which raises ValueError on no file.
Collect ==
    /\ pc = "glob"
    /\ IF files = <<>>
       THEN raised' = "ValueError" /\ pc' = "exit"
       ELSE raised' = raised /\ pc' = "loop"
    /\ UNCHANGED <<remove_comments, files, calls>>

\* Lines 65-73: one iteration of the loop over the collected files; r is the
\* record of the call on file i.
endIteration(i, r) ==
    /\ calls' = [calls EXCEPT ![i] = r]
    /\ IF propagates(r.exc)
       THEN raised' = r.exc /\ pc' = "exit"
       ELSE raised' = raised /\ pc' = IF i = Len(files) THEN "exit" ELSE "loop"

iteration(i) == endIteration(i, format_file(files[i], remove_comments))

FormatNext ==
    /\ pc = "loop"
    /\ iteration(nextFile)
    /\ UNCHANGED <<remove_comments, files>>

NextFile == FormatOne

NextDir == Collect \/ FormatNext

\* A run on one file.
Spec == InitFile /\ [][NextFile]_vars

\* A run on a directory.
SpecDir == InitDir /\ [][NextDir]_vars

\* ---------------------------------------------- the scanner of the design
\* The state machine the design describes for the scanner, which the claims
\* are stated against: Code, InLiteral(delimiter), InComment; the longest
\* delimiter opens a literal; inside a one-character-delimited literal a
\* backslash exempts the next character from closing it, and a line
\* terminator leaves the literal unterminated (such a literal does not span
\* lines); a comment runs to the next line terminator, which is kept.
InCode == [kind |-> "Code", q |-> <<>>, start |-> 0, esc |-> FALSE]

designOpens(s, p) ==
    IF StartsWith(s, p, <<DQ, DQ, DQ>>) THEN <<DQ, DQ, DQ>>
    ELSE IF StartsWith(s, p, <<SQ, SQ, SQ>>) THEN <<SQ, SQ, SQ>>
    ELSE IF s[p] \in { DQ, SQ } THEN <<s[p]>>
    ELSE <<>>

\* The run of the design's machine from p in state st: the state it ends in
\* (InLiteral: the literal that began at start is unterminated), the positions
\* it deletes, and the literals it closed, <<first, last, delimiter length,
\* whether an escaped delimiter occurs inside>>.
RECURSIVE design(_, _, _, _, _)
design(s, p, st, deleted, lits) ==
    LET stop == [final |-> st.kind, start |-> st.start, deleted |-> deleted, lits |-> lits]
    IN
    IF p > Len(s) THEN stop
    ELSE IF st.kind = "Code"
    THEN LET q == designOpens(s, p)
         IN  IF q # <<>>
             THEN design(s, p + Len(q),
                         [kind |-> "InLiteral", q |-> q, start |-> p, esc |-> FALSE],
                         deleted, lits)
             ELSE IF s[p] = HASH
             THEN design(s, p + 1,
                         [kind |-> "InComment", q |-> <<>>, start |-> p, esc |-> FALSE],
                         deleted \cup {p}, lits)
             ELSE design(s, p + 1, st, deleted, lits)
    ELSE IF st.kind = "InLiteral"
    THEN IF Len(st.q) = 1 /\ s[p] = BS
         THEN IF p = Len(s) THEN stop
              ELSE design(s, p + 2, [st EXCEPT !.esc = st.esc \/ s[p + 1] = st.q[1]],
                          deleted, lits)
         ELSE IF StartsWith(s, p, st.q)
         THEN design(s, p + Len(st.q), InCode, deleted,
                     lits \cup { <<st.start, p + Len(st.q) - 1, Len(st.q), st.esc>> })
         ELSE IF Len(st.q) = 1 /\ s[p] = NL THEN stop
         ELSE design(s, p + 1, st, deleted, lits)
    ELSE IF s[p] = NL
         THEN design(s, p + 1, InCode, deleted, lits)
         ELSE design(s, p + 1, st, deleted \cup {p}, lits)

Design(s) == design(s, 1, InCode, {}, {})

\* s without the characters at the positions deleted.
RECURSIVE keepFrom(_, _, _)
keepFrom(s, p, deleted) ==
    IF p > Len(s) THEN <<>>
    ELSE (IF p \in deleted THEN <<>> ELSE <<s[p]>>) \o keepFrom(s, p + 1, deleted)

Without(s, deleted) == keepFrom(s, 1, deleted)

Chars(s) == { s[i] : i \in 1..Len(s) }

\* The positions of s inside the matches the scan suppresses.
Suppressed(s) ==
    LET ms == scan_string(s, 1)
    IN  { p \in 1..Len(s) : \E k \in 1..Len(ms) : ms[k][1] <= p /\ p < ms[k][2] }

\* ------------------------------------------------- claims on one file
\* The run on one file is over and its call ran the scanner on Text.
Text == files[1].text

Call == calls[1]

Scanned == pc = "exit" /\ Len(Call.steps) >= 2 /\ Call.steps[2] = "scan"

\* The call went on after the scan: the scan raised nothing.
ScanSucceeded == Scanned /\ Len(Call.steps) >= 3

\* C1: whenever the scan succeeds (the design's machine does not end inside a
\* literal), the output is the input without exactly the line-comment spans,
\* each from a '#' met in Code state to just before the next line terminator
\* or the end of text, every other character kept in order.
C1_OnlyCommentSpansDeleted ==
    Scanned =>
        LET d == Design(Text)
        IN  d.final # "InLiteral" =>
                ScanSucceeded /\ Call.scanned = Without(Text, d.deleted)

\* C2: a '#' or a quote character inside a string literal (other than the
\* literal's unescaped closing delimiter) starts no comment and closes nothing:
\* every character of every literal is kept by the scan.
C2_LiteralsKept ==
    Scanned =>
        \A l \in Design(Text).lits : \A p \in l[1]..l[2] : p \notin Suppressed(Text)

\* C3: in a literal delimited by one quote character, a backslash followed by
\* that character does not close the literal: the literal recognised where it
\* opens ends at the unescaped closing quote, and all of it is kept.
C3_EscapedDelimiterDoesNotClose ==
    Scanned =>
        \A l \in Design(Text).lits :
            (l[3] = 1 /\ l[4]) =>
                /\ any_python_quoted_string(Text, l[1]) = l[2] + 1
                /\ \A p \in l[1]..l[2] : p \notin Suppressed(Text)

\* C5: whenever the end of text is reached inside a line comment, the scan
\* succeeds, nothing is raised for it, and the output is the input cut at the
\* comment marker (earlier comments deleted as always).
C5_TrailingCommentValid ==
    Scanned =>
        LET d == Design(Text)
        IN  d.final = "InComment" =>
                /\ ScanSucceeded
                /\ Call.scanned = Without(SubSeq(Text, 1, d.start - 1), d.deleted)

\* C8: on a text with no '#' at all, whatever quotes, backslashes and line
\* terminators it holds, closed or not, the scan succeeds and its output is
\* its input.
C8_NoMarkerNoChange ==
    (Scanned /\ HASH \notin Chars(Text)) =>
        ScanSucceeded /\ Call.scanned = Text

\* C8's case: an unclosed quote, a backslash and a line terminator, no '#'.
C8_Witness ==
    /\ Scanned
    /\ Text = <<DQ, BS, NL, SQ>>
    /\ Call.scanned = Text

\* The positions at or after a '#' on their line.
AfterMarker(s) ==
    { p \in 1..Len(s) :
        \E h \in 1..p : s[h] = HASH /\ \A r \in h..p : s[r] # NL }

QuoteCount(s) == Cardinality({ p \in 1..Len(s) : s[p] \in { DQ, SQ } })

\* C4 as stated: whenever the end of text is reached inside a literal, the
\* scan fails with UnterminatedSpanError and the call produces nothing.
C4_UnterminatedLiteralRaises ==
    Scanned =>
        (Design(Text).final = "InLiteral" =>
            /\ Call.exc = "UnterminatedSpanError"
            /\ ~ScanSucceeded
            /\ Call.out = files[1].old)

\* C4 as amended: whenever the end of text is reached inside an unclosed
\* literal, the scan still succeeds and returns a text, nothing is raised for
\* it; the unclosed quote is ordinary code, so a '#' after it is a comment
\* marker: in a text whose only quote character is the unclosed one, every
\* '#' goes with the rest of its line and nothing else does.
C4_UnterminatedLiteralScans ==
    Scanned =>
        (Design(Text).final = "InLiteral" =>
            /\ ScanSucceeded
            /\ Call.exc # "UnterminatedSpanError"
            /\ QuoteCount(Text) = 1 => Call.scanned = Without(Text, AfterMarker(Text)))

\* C4's case: a quote never closed, then a comment marker.
C4_Witness ==
    /\ Scanned
    /\ Text = <<"a", DQ, "a", HASH, "a">>
    /\ Design(Text).final = "InLiteral"
    /\ Call.scanned = <<"a", DQ, "a">>
    /\ Call.exc = "none"

\* The positions at which the scan stands outside every literal and comment
\* it recognised, from p on.
RECURSIVE standsAt(_, _)
standsAt(s, p) ==
    IF p > Len(s) THEN {}
    ELSE IF any_python_quoted_string(s, p) # 0
    THEN {p} \cup standsAt(s, any_python_quoted_string(s, p))
    ELSE IF python_style_comment(s, p) # 0
    THEN standsAt(s, python_style_comment(s, p))
    ELSE {p} \cup standsAt(s, p + 1)

IsTriple(s, p) == StartsWith(s, p, <<DQ, DQ, DQ>>) \/ StartsWith(s, p, <<SQ, SQ, SQ>>)

\* Where the triple delimiter that stands at p next occurs, from p + 3 on
\* (0: nowhere).
NextOccurrence(s, p) ==
    LET later == { c \in (p + 3)..Len(s) : StartsWith(s, c, SubSeq(s, p, p + 2)) }
    IN  IF later = {} THEN 0 ELSE CHOOSE c \in later : \A x \in later : c <= x

\* The triple delimiters the design's machine takes as the opening of a
\* literal.
TripleOpens(s) ==
    LET d == Design(s)
    IN  { l[1] : l \in { x \in d.lits : x[3] = 3 } }
            \cup (IF d.final = "InLiteral" /\ IsTriple(s, d.start) THEN { d.start } ELSE {})

\* C6 as stated: in Code state a triple delimiter opens a triple-quoted
\* literal, never a literal of its one-character prefix; the literal runs to
\* the next occurrence of the same triple delimiter, and everything inside it
\* ('#', line terminators, single quotes, backslashes) is kept.
C6_TripleAlwaysOpensTriple ==
    Scanned =>
        \A p \in TripleOpens(Text) :
            /\ any_python_quoted_string(Text, p)
                   = QuotedString(Text, p, SubSeq(Text, p, p + 2), TRUE)
            /\ \A l \in Design(Text).lits :
                   l[1] = p => \A r \in l[1]..l[2] : r \notin Suppressed(Text)

\* C6 as amended: where the scan stands at a triple delimiter that occurs
\* again later in the text, the literal is the triple-quoted one: it ends with
\* the next occurrence of the delimiter and all of it appears in the output;
\* where the delimiter does not occur again, the first two quote characters
\* are taken as an empty literal of the one-character delimiter.
C6_ClosedTripleOpensTriple ==
    Scanned =>
        \A p \in standsAt(Text, 1) :
            IsTriple(Text, p) =>
                LET c == NextOccurrence(Text, p)
                    k == Cardinality({ r \in Suppressed(Text) : r < p })
                IN  IF c = 0
                    THEN any_python_quoted_string(Text, p) = p + 2
                    ELSE /\ any_python_quoted_string(Text, p) = c + 3
                         /\ \A r \in p..(c + 2) : r \notin Suppressed(Text)
                         /\ SubSeq(Call.scanned, p - k, c + 2 - k) = SubSeq(Text, p, c + 2)

\* C6's case: a closed triple-quoted literal with a '#', a single quote and a
\* line terminator inside.
C6_Witness ==
    /\ Scanned
    /\ Text = <<DQ, DQ, DQ, HASH, SQ, NL, DQ, DQ, DQ>>
    /\ Call.scanned = Text

\* C9: when the input path is no existing file or does not end in ".py",
\* format_file raises the invalid-input error before anything else: nothing is
\* read, scanned or formatted, no directory is created, the output path is
\* left as it was.
C9_InvalidInputFirst ==
    (pc = "exit" /\ (~files[1].isfile \/ ~files[1].py)) =>
        /\ Call.exc = "ValueError"
        /\ raised = "ValueError"
        /\ Call.steps = <<>>
        /\ ~Call.madeDir
        /\ Call.out = files[1].old

\* C9's case: an existing file of another extension, its output path in use.
C9_Witness ==
    /\ pc = "exit"
    /\ files[1].isfile /\ ~files[1].py /\ files[1].fmtOk /\ files[1].outdir
    /\ files[1].old.exists
    /\ raised = "ValueError"
    /\ Call.out = files[1].old

IsPrefix(a, b) == Len(a) <= Len(b) /\ SubSeq(b, 1, Len(a)) = a

AllSteps ==
    IF remove_comments THEN <<"read", "scan", "format", "makedirs", "write">>
    ELSE <<"read", "format", "makedirs", "write">>

\* C10: the steps of format_file come in the order read, scan (only with
\* remove_comments), format, create directory, write; a call that fails hands
\* its error to the caller as it is and leaves the output path as it was; what
\* is written is the formatter's result, never the text before formatting.
C10_FailureLeavesOutput ==
    pc = "exit" =>
        /\ IsPrefix(Call.steps, AllSteps)
        /\ Call.exc # "none" =>
              /\ raised = Call.exc
              /\ Call.out = files[1].old
              /\ Call.steps # AllSteps
        /\ Call.out # files[1].old =>
              /\ Call.exc = "none"
              /\ Call.steps = AllSteps
              /\ Call.out = [exists |-> TRUE, data |-> FormatCode(Call.scanned)]

\* C10's case: the formatter rejects the scanned text of a file whose output
\* path is in use.
C10_Witness ==
    /\ pc = "exit"
    /\ remove_comments
    /\ Call.exc = "FormatCodeError"
    /\ raised = "FormatCodeError"
    /\ Call.steps = <<"read", "scan", "format">>
    /\ files[1].old.exists
    /\ Call.out = files[1].old

\* ---------------------------------------------- claims on a directory
\* The file's own pipeline succeeds.
OwnPipelineSucceeds(f) == f.isfile /\ f.py /\ f.fmtOk /\ f.outdir

Written(i) ==
    /\ calls[i].called
    /\ calls[i].exc = "none"
    /\ calls[i].out = [exists |-> TRUE, data |-> FormatCode(calls[i].scanned)]

\* C7 as stated: when one file of a directory fails, every other file is
\* still attempted, and written if its own pipeline succeeds, wherever the
\* failing file stands in the order.
C7_BatchIsolation ==
    pc = "exit" =>
        \A j \in 1..Len(files) : OwnPipelineSucceeds(files[j]) => Written(j)

\* C7 as amended: the failure of file k leaves the loop and ends the run with
\* that error: the files before k in the processing order have been processed
\* and written, the files after k are never attempted.
C7_FailureEndsBatch ==
    \A k \in 1..Len(files) :
        (calls[k].called /\ calls[k].exc # "none") =>
            /\ pc = "exit"
            /\ raised = calls[k].exc
            /\ \A j \in 1..(k - 1) : Written(j)
            /\ \A j \in (k + 1)..Len(files) : calls[j] = NotCalled

\* C7's case: the second of three files fails; the third, which would have
\* succeeded, is never attempted.
C7_Witness ==
    /\ pc = "exit"
    /\ Len(files) = 3
    /\ Written(1)
    /\ calls[2].exc = "FormatCodeError"
    /\ raised = "FormatCodeError"
    /\ OwnPipelineSucceeds(files[3])
    /\ calls[3] = NotCalled

====
